---- MODULE Spec2Model ----
(***************************************************************************)
(* The home screen of the Compass chat front-end (src/app/page.tsx): the   *)
(* turn list, the loading gate, the insights badge, the requests in        *)
(* flight, and the helpers that reconcile a response into a turn.          *)
(*                                                                         *)
(* Strings are sequences of tokens.  A token is an indivisible run of      *)
(* characters that is either whitespace, punctuation, or a run of word     *)
(* characters; two adjacent word tokens form one word (there is no word    *)
(* boundary between them).  JavaScript's null and undefined are not told    *)
(* apart: an absent object is null, an absent string is undefined and an   *)
(* absent array is notArray, so that values of one kind stay comparable.   *)
(***************************************************************************)
EXTENDS Integers, Sequences, FiniteSets, TLC

null == [null |-> TRUE]
undefined == <<"undefined">>
notArray == <<null>>

(***************************************************************************)
(* Bounds of the model.                                                    *)
(***************************************************************************)
\* turns created during one session, not counting greeting turns
MaxTurns == 2
\* readings of Date.now() go from 1 to MaxClock
MaxClock == 2
\* insights refreshes (mount, Logout) outstanding at the same time
MaxRefresh == 1
\* length of a messages array given to the response extractor
MaxMsgs == 2

(***************************************************************************)
(* Strings.                                                                *)
(***************************************************************************)
WhiteSpace == {" ", "\n"}
Punctuation == {"-", "(", ")", ":", "."}
DemoWords == {"demo", "Demo", "DEMO"}
SafeWords == {"safe", "SAFE"}

IsSpace(t) == t \in WhiteSpace
IsWord(t) == t \notin WhiteSpace \cup Punctuation

\* String.prototype.trim: whitespace removed at both ends
RECURSIVE TrimStart(_)
TrimStart(s) ==
  IF s = <<>> THEN <<>>
  ELSE IF IsSpace(Head(s)) THEN TrimStart(Tail(s)) ELSE s

RECURSIVE TrimEnd(_)
TrimEnd(s) ==
  IF s = <<>> THEN <<>>
  ELSE IF IsSpace(s[Len(s)]) THEN TrimEnd(SubSeq(s, 1, Len(s) - 1)) ELSE s

Trim(s) == TrimEnd(TrimStart(s))

\* a word boundary (\b) before position i, and one after position j, of s
BoundaryBefore(s, i) == i = 1 \/ ~IsWord(s[i - 1])
BoundaryAfter(s, j) == j = Len(s) \/ ~IsWord(s[j + 1])

\* .replace(/\bdemo-safe\b/gi, "")
DemoSafeAt(s, i) ==
  /\ i + 2 <= Len(s)
  /\ s[i] \in DemoWords /\ s[i + 1] = "-" /\ s[i + 2] \in SafeWords
  /\ BoundaryBefore(s, i) /\ BoundaryAfter(s, i + 2)

RECURSIVE RemoveDemoSafe(_, _)
RemoveDemoSafe(s, i) ==
  IF i > Len(s) THEN <<>>
  ELSE IF DemoSafeAt(s, i) THEN RemoveDemoSafe(s, i + 3)
  ELSE <<s[i]>> \o RemoveDemoSafe(s, i + 1)

\* .replace(/\(demo\)/gi, "")
ParenDemoAt(s, i) ==
  /\ i + 2 <= Len(s)
  /\ s[i] = "(" /\ s[i + 1] \in DemoWords /\ s[i + 2] = ")"

RECURSIVE RemoveParenDemo(_, _)
RemoveParenDemo(s, i) ==
  IF i > Len(s) THEN <<>>
  ELSE IF ParenDemoAt(s, i) THEN RemoveParenDemo(s, i + 3)
  ELSE <<s[i]>> \o RemoveParenDemo(s, i + 1)

\* .replace(/\bdemo\b/gi, "")
DemoAt(s, i) ==
  s[i] \in DemoWords /\ BoundaryBefore(s, i) /\ BoundaryAfter(s, i)

RECURSIVE RemoveDemo(_, _)
RemoveDemo(s, i) ==
  IF i > Len(s) THEN <<>>
  ELSE IF DemoAt(s, i) THEN RemoveDemo(s, i + 1)
  ELSE <<s[i]>> \o RemoveDemo(s, i + 1)

\* .replace(/\s{2,}/g, " "): a run of two or more whitespace becomes one space
RECURSIVE SpaceRunEnd(_, _)
SpaceRunEnd(s, i) ==
  IF i <= Len(s) /\ IsSpace(s[i]) THEN SpaceRunEnd(s, i + 1) ELSE i

RECURSIVE CollapseSpaces(_, _)
CollapseSpaces(s, i) ==
  IF i > Len(s) THEN <<>>
  ELSE IF SpaceRunEnd(s, i) >= i + 2
       THEN <<" ">> \o CollapseSpaces(s, SpaceRunEnd(s, i))
       ELSE <<s[i]>> \o CollapseSpaces(s, i + 1)

stripDemo(input) ==
  IF input = undefined THEN input
  ELSE Trim(CollapseSpaces(
         RemoveDemo(RemoveParenDemo(RemoveDemoSafe(input, 1), 1), 1), 1))

\* String.prototype.includes
Includes(s, sub) ==
  \E i \in 1..(Len(s) - Len(sub) + 1) : SubSeq(s, i, i + Len(sub) - 1) = sub

(***************************************************************************)
(* Response extractors (the helpers of Home).                              *)
(***************************************************************************)
\* JavaScript truthiness of a string-or-undefined and of an object-or-null
TruthyStr(v) == v # undefined /\ v # <<>>
Truthy(v) == v # null

NoResponse == <<"No", " ", "response", ".">>
SpendAnalysis == <<"Spend", " ", "Analysis">>

\* the find predicate without its test of the role
IsAssistantWithText_AnyRole(m) ==
  /\ m # null
  /\ Trim(IF m.content = undefined THEN <<>> ELSE m.content) # <<>>

\* msgs.find((m) => m?.role === "assistant" && (m.content ?? "").trim())
IsAssistantWithText(m) ==
  /\ m # null
  /\ m.role = "assistant"
  /\ Trim(IF m.content = undefined THEN <<>> ELSE m.content) # <<>>

RECURSIVE FindAssistant(_, _)
FindAssistant(msgs, i) ==
  IF i > Len(msgs) THEN null
  ELSE IF IsAssistantWithText(msgs[i]) THEN msgs[i]
  ELSE FindAssistant(msgs, i + 1)

\* extractAssistantText without its fallback literal
extractAssistantText_NoFallback(data) ==
  LET msgs == IF data.messages # notArray THEN data.messages ELSE <<>>
      first == FindAssistant(msgs, 1)
  IN IF first # null THEN stripDemo(Trim(first.content)) ELSE <<>>

extractAssistantText(data) ==
  LET msgs == IF data.messages # notArray THEN data.messages ELSE <<>>
      first == FindAssistant(msgs, 1)
  IN IF first # null THEN stripDemo(Trim(first.content)) ELSE NoResponse

extractChartsIfAny(data, card) ==
  LET charts == IF data.debug = null THEN null ELSE data.debug.charts
  IN IF card # null /\ card.title = SpendAnalysis /\ Truthy(charts)
     THEN charts ELSE null

Step(stage, agent, tool, reasoning, decision, result) ==
  [stage |-> stage, agent |-> agent, tool |-> tool,
   reasoning |-> reasoning, decision |-> decision, result |-> result]

PlannerStep(planner) ==
  Step(<<"Planner">>, <<"Planner">>, undefined,
       stripDemo(planner.reason), stripDemo(planner.decision), undefined)

DelegateStep(delegate) ==
  Step(<<"Delegate">>,
       stripDemo(IF TruthyStr(delegate.agent) THEN delegate.agent
                 ELSE <<"Router">>),
       stripDemo(delegate.capability),
       undefined,
       IF TruthyStr(delegate.capability)
       THEN stripDemo(<<"Route", " ", "to", " ">> \o delegate.capability)
       ELSE undefined,
       undefined)

ActStep(act) ==
  Step(<<"Act">>, <<"Executor">>, undefined,
       IF TruthyStr(act.confidence)
       THEN stripDemo(<<"Confidence", ":", " ">> \o act.confidence)
       ELSE undefined,
       undefined,
       stripDemo(act.result))

\* the three pushes with the Act step pushed first
StructuredSteps_ActFirst(at) ==
  (IF Truthy(at.act) THEN <<ActStep(at.act)>> ELSE <<>>)
  \o (IF Truthy(at.planner) THEN <<PlannerStep(at.planner)>> ELSE <<>>)
  \o (IF Truthy(at.delegate) THEN <<DelegateStep(at.delegate)>> ELSE <<>>)

StructuredSteps(at) ==
  (IF Truthy(at.planner) THEN <<PlannerStep(at.planner)>> ELSE <<>>)
  \o (IF Truthy(at.delegate) THEN <<DelegateStep(at.delegate)>> ELSE <<>>)
  \o (IF Truthy(at.act) THEN <<ActStep(at.act)>> ELSE <<>>)

FlatStep(s) ==
  Step(stripDemo(s.stage), stripDemo(s.agent), stripDemo(s.tool),
       stripDemo(s.reasoning), stripDemo(s.decision), stripDemo(s.result))

\* the structured branch taken for any agent_trace object
UsesStructured_AnyObject(at) == Truthy(at)

\* the structured branch is taken: at && (at.planner || at.delegate || at.act)
UsesStructured(at) ==
  Truthy(at) /\ (Truthy(at.planner) \/ Truthy(at.delegate) \/ Truthy(at.act))

extractTraceIfAny(data) ==
  LET dbg == data.debug
      at == IF dbg = null THEN null ELSE dbg.agent_trace
      dbgTrace == IF dbg = null THEN notArray ELSE dbg.trace
      traceArray == IF dbgTrace # notArray THEN dbgTrace ELSE data.trace
  IN IF UsesStructured(at)
     THEN (IF Len(StructuredSteps(at)) > 0 THEN StructuredSteps(at)
           ELSE notArray)
     ELSE IF traceArray # notArray /\ Len(traceArray) > 0
          THEN [i \in 1..Len(traceArray) |-> FlatStep(traceArray[i])]
          ELSE notArray

sanitizeCard(card) ==
  IF card = null THEN null
  ELSE [title |-> stripDemo(card.title),
        subtitle |-> stripDemo(card.subtitle),
        body |-> stripDemo(card.body),
        actions |->
          IF card.actions # notArray
          THEN [i \in 1..Len(card.actions) |->
                  [card.actions[i] EXCEPT !.label = stripDemo(@)]]
          ELSE card.actions]

\* what send, onActionClick and openInsight derive from a successful response
Reconcile(data) ==
  LET card == sanitizeCard(data.card)
  IN [assistantText |-> extractAssistantText(data),
      card |-> card,
      charts |-> extractChartsIfAny(data, card),
      trace |-> extractTraceIfAny(data)]

(***************************************************************************)
(* Payloads the backend can answer with, and the ways a call can fail.     *)
(***************************************************************************)
Msg(role, content) == [role |-> role, content |-> content]
Action(label, action_name) ==
  [label |-> label, action_name |-> action_name, params |-> null]
Card(title, actions) ==
  [title |-> title, subtitle |-> undefined, body |-> undefined,
   actions |-> actions]
Debug(charts, agent_trace, trace, insights) ==
  [charts |-> charts, agent_trace |-> agent_trace, trace |-> trace,
   insights |-> insights]
Response(messages, card, debug, trace) ==
  [messages |-> messages, card |-> card, debug |-> debug, trace |-> trace]
AgentTrace(planner, delegate, act) ==
  [planner |-> planner, delegate |-> delegate, act |-> act]

SomeCharts ==
  [pie |-> <<[name |-> <<"Food">>, value |-> 40]>>, trend |-> notArray]
SomeInsight ==
  [id |-> <<"i1">>, title |-> <<"Low", " ", "balance">>,
   subtitle |-> undefined]
SomeActions ==
  << Action(<<"Refresh", " ", "(", "demo", ")">>, <<"spend_refresh">>),
     Action(<<"Close">>, undefined) >>

\* a plain reply
TextResponse ==
  Response(<<Msg("assistant", <<"hi">>)>>, null, null, notArray)
\* a Spend Analysis card with actions, charts, a planner trace and an insight
SpendResponse ==
  Response(notArray, Card(SpendAnalysis, SomeActions),
           Debug(SomeCharts,
                 AgentTrace([decision |-> <<"D">>, reason |-> <<"R">>],
                            null, null),
                 notArray, <<SomeInsight>>),
           notArray)
\* a card whose title carries a disclaimer, with charts in the side channel
DemoTitleResponse ==
  Response(notArray,
           Card(SpendAnalysis \o <<" ", "(", "demo", ")">>, notArray),
           Debug(SomeCharts, null, notArray, notArray), notArray)

UIResponses == {TextResponse, SpendResponse}

Ok(d) == [kind |-> "ok", data |-> d]
HttpError(status, body) == [kind |-> "http", status |-> status, body |-> body]
Thrown(message) == [kind |-> "throw", message |-> message]

Failures ==
  { HttpError("500", <<"boom">>),
    Thrown(<<"Failed", " ", "to", " ", "fetch">>) }

\* e.message of the Error thrown by callOrchestrate / callAction, or by fetch
ErrorMessage(prefix, e) ==
  IF e.kind = "http"
  THEN prefix \o <<" ", "(", e.status, ")", ":", " ">> \o e.body
  ELSE e.message

OrchestratePrefix == <<"API">>
ActionPrefix == <<"/", "action">>
UIError(e) ==
  <<"UI", " ", "error", ":", " ">> \o ErrorMessage(OrchestratePrefix, e)
ActionError(e) ==
  <<"Action", " ", "error", ":", " ">> \o ErrorMessage(ActionPrefix, e)

(***************************************************************************)
(* State of Home.                                                          *)
(***************************************************************************)
VARIABLES
  turns,            \* useState<Turn[]>
  expandedTrace,    \* the turn ids whose trace panel is open
  input,            \* the text field
  loading,          \* the gate
  insights,         \* the list behind the badge
  insightsLoading,
  requests,         \* HTTP requests in flight, oldest first
  now,              \* the reading of Date.now()
  mounted,          \* the mount effect has run
  prov,             \* history: for each turn, who made it and what it last got
  created,          \* history: turns created so far (greetings not counted)
  returned,         \* history: the handler that has just returned early,
                    \* or "late" after a response that found no turn
  data,             \* a response handed to the extractors on its own
  out               \* what the extractors made of data

uiVars == <<turns, expandedTrace, input, loading, insights, insightsLoading,
            requests, now, mounted, prov, created, returned>>
vars == <<turns, expandedTrace, input, loading, insights, insightsLoading,
          requests, now, mounted, prov, created, returned, data, out>>

GreetingId == <<"t0">>
\* the greeting, cut after its first words
GreetingText == <<"Hi", " ", "Ramesh">>
Placeholder == <<"...">>
InsightsText == <<"Here", " ", "are", " ", "your", " ", "latest", " ",
                  "insights", ".">>
InsightsCard ==
  [title |-> <<"Insights">>,
   subtitle |-> <<"Tap", " ", "an", " ", "insight", " ", "to", " ", "view",
                  " ", "details">>,
   body |-> undefined, actions |-> notArray]

Turn(id, userText, assistantText, card, insightsList) ==
  [id |-> id, userText |-> userText, assistantText |-> assistantText,
   card |-> card, charts |-> null, trace |-> notArray,
   insightsList |-> insightsList]

Greeting == Turn(GreetingId, <<>>, GreetingText, null, notArray)
\* the turnId of a request that is about no turn
NoTurn == <<"">>

\* `t-${Date.now()}` followed by a suffix
TurnId(suffix) == <<"t-", now, suffix>>

\* history of a turn: its creation number, the handler that made it, the last
\* outcome mapped into it and the last successful response mapped into it
Provenance(serial, by) ==
  [serial |-> serial, by |-> by, last |-> null, ok |-> null]

QuickChips == { <<"travel">> }
Inputs == { <<" ">>, <<" ", "demo", " ", "travel">> }

Request(op, url, text, action_name, turnId, serial) ==
  [op |-> op, url |-> url, text |-> text, action_name |-> action_name,
   turnId |-> turnId, serial |-> serial]

Remove(seq, i) == SubSeq(seq, 1, i - 1) \o SubSeq(seq, i + 1, Len(seq))

\* the turns of prev, the arguments of the callback of prev.map
Listed == {turns[k] : k \in 1..Len(turns)}

\* the update of one turn that drops the others
MapTurn_Filter(prev, turnId, f) ==
  LET RECURSIVE Kept(_)
      Kept(i) == IF i > Len(prev) THEN <<>>
                 ELSE (IF prev[i].id = turnId THEN <<f[prev[i]]>> ELSE <<>>)
                      \o Kept(i + 1)
  IN Kept(1)

\* setTurns((prev) => prev.map((x) => x.id === turnId ? f(x) : x))
MapTurn(prev, turnId, f) ==
  [i \in 1..Len(prev) |-> IF prev[i].id = turnId THEN f[prev[i]] ELSE prev[i]]

\* history of a response: "late" when no turn in the list has its turnId
Late(turnId) ==
  IF \E k \in 1..Len(turns) : turns[k].id = turnId THEN "" ELSE "late"

\* the history of the turns a response was mapped into
Applied(turnId, op, outcome) ==
  [i \in 1..Len(prov) |->
     IF turns[i].id = turnId
     THEN [prov[i] EXCEPT !.last = [op |-> op, outcome |-> outcome],
                          !.ok = IF outcome.kind = "ok" THEN outcome.data
                                 ELSE @]
     ELSE prov[i]]

InitHome ==
  /\ turns = <<Greeting>>
  /\ expandedTrace = {}
  /\ input = <<>>
  /\ loading = FALSE
  /\ insights = <<>>
  /\ insightsLoading = FALSE
  /\ requests = <<>>
  /\ now = 1
  /\ mounted = FALSE
  /\ prov = <<Provenance(0, "Home")>>
  /\ created = 0
  /\ returned = ""

Init == InitHome /\ data = null /\ out = null

(***************************************************************************)
(* refreshInsights: the badge's own request, not gated by loading.         *)
(***************************************************************************)
\* the list refreshInsights stores and returns for an outcome of its call
RECURSIVE CleanInsights(_)
CleanInsights(list) ==
  IF list = <<>> THEN <<>>
  ELSE LET x == Head(list)
       IN (IF x # null /\ x.id # undefined /\ x.title # undefined
           THEN <<[id |-> stripDemo(x.id), title |-> stripDemo(x.title),
                   subtitle |-> stripDemo(x.subtitle)]>>
           ELSE <<>>) \o CleanInsights(Tail(list))

InsightsOf(outcome) ==
  IF outcome.kind # "ok" THEN <<>>
  ELSE LET d == outcome.data
           list == IF d.debug = null \/ d.debug.insights = notArray
                   THEN <<>> ELSE d.debug.insights
       IN CleanInsights(list)

RefreshRequest(op, turnId, serial) ==
  Request(op, "/orchestrate", <<"insights">>, undefined, turnId, serial)

Outstanding(op) == {i \in 1..Len(requests) : requests[i].op = op}

\* useEffect(() => { refreshInsights(); }, [])
Mount ==
  /\ ~mounted
  /\ mounted' = TRUE
  /\ insightsLoading' = TRUE
  /\ requests' = Append(requests, RefreshRequest("refreshInsights", NoTurn, 0))
  /\ returned' = ""
  /\ UNCHANGED <<turns, expandedTrace, input, loading, insights, now, prov,
                 created, data, out>>

\* the call of refreshInsights made on mount or by Logout comes back
refreshInsightsDone(i, outcome) ==
  /\ i \in Outstanding("refreshInsights")
  /\ insights' = InsightsOf(outcome)
  /\ insightsLoading' = FALSE
  /\ requests' = Remove(requests, i)
  /\ returned' = ""
  /\ UNCHANGED <<turns, expandedTrace, input, loading, now, mounted, prov,
                 created, data, out>>

(***************************************************************************)
(* send                                                                    *)
(***************************************************************************)
\* the early return of send without its test of loading
sendReturns_Ungated(tRaw) == tRaw = <<>>

\* if (!tRaw || loading) return;
sendReturns(tRaw) == tRaw = <<>> \/ loading

\* text is a quick chip, or undefined when the form is submitted
send(text) ==
  LET tRaw == Trim(IF text # undefined THEN text ELSE input)
  IN /\ mounted
     /\ IF sendReturns(tRaw)
        THEN /\ returned' = "send"
             /\ UNCHANGED <<turns, expandedTrace, input, loading, insights,
                            insightsLoading, requests, now, mounted, prov,
                            created, data, out>>
        ELSE /\ created < MaxTurns
             /\ returned' = ""
             /\ loading' = TRUE
             /\ input' = <<>>
             /\ turns' = Append(turns, Turn(TurnId(""), stripDemo(tRaw),
                                            Placeholder, null, notArray))
             /\ prov' = Append(prov, Provenance(created + 1, "send"))
             /\ created' = created + 1
             /\ requests' = Append(requests,
                  Request("send", "/orchestrate", tRaw, undefined, TurnId(""),
                          created + 1))
             /\ UNCHANGED <<expandedTrace, insights, insightsLoading, now,
                            mounted, data, out>>

\* the success update without the assistant text
Resolved_KeepText(x, r) ==
  [x EXCEPT !.card = r.card, !.charts = r.charts, !.trace = r.trace]

\* { ...x, assistantText, card, charts, trace } of a successful response
Resolved(x, r) ==
  [x EXCEPT !.assistantText = r.assistantText, !.card = r.card,
            !.charts = r.charts, !.trace = r.trace]

SendErrored(x, e) ==
  [x EXCEPT !.assistantText = UIError(e), !.card = null, !.charts = null,
            !.trace = notArray]

sendResolved(i, d) ==
  /\ i \in Outstanding("send")
  /\ LET turnId == requests[i].turnId
         r == Reconcile(d)
         f == [x \in Listed |-> Resolved(x, r)]
     IN /\ turns' = MapTurn(turns, turnId, f)
        /\ prov' = Applied(turnId, "send", Ok(d))
  /\ loading' = FALSE
  /\ requests' = Remove(requests, i)
  /\ returned' = Late(requests[i].turnId)
  /\ UNCHANGED <<expandedTrace, input, insights, insightsLoading, now,
                 mounted, created, data, out>>

\* the failure of send without the finally block
sendFailed_StaysLoading(i, e) ==
  /\ i \in Outstanding("send")
  /\ LET turnId == requests[i].turnId
         f == [x \in Listed |-> SendErrored(x, e)]
     IN /\ turns' = MapTurn(turns, turnId, f)
        /\ prov' = Applied(turnId, "send", e)
  /\ requests' = Remove(requests, i)
  /\ returned' = Late(requests[i].turnId)
  /\ UNCHANGED <<expandedTrace, input, loading, insights, insightsLoading,
                 now, mounted, created, data, out>>

sendFailed(i, e) ==
  /\ i \in Outstanding("send")
  /\ LET turnId == requests[i].turnId
         f == [x \in Listed |-> SendErrored(x, e)]
     IN /\ turns' = MapTurn(turns, turnId, f)
        /\ prov' = Applied(turnId, "send", e)
  /\ loading' = FALSE
  /\ requests' = Remove(requests, i)
  /\ returned' = Late(requests[i].turnId)
  /\ UNCHANGED <<expandedTrace, input, insights, insightsLoading, now,
                 mounted, created, data, out>>

(***************************************************************************)
(* onActionClick                                                           *)
(***************************************************************************)
\* the action buttons a turn renders
ActionsOf(t) ==
  IF t.card # null /\ t.card.actions # notArray THEN t.card.actions
  ELSE <<>>

\* the failure update of an action made like the one of send
ActionErrored_Clearing(x, e) ==
  [x EXCEPT !.assistantText = ActionError(e), !.card = null, !.charts = null,
            !.trace = notArray]

\* { ...x, assistantText: `Action error: ...` }
ActionErrored(x, e) == [x EXCEPT !.assistantText = ActionError(e)]

\* the early return of onActionClick without its test of loading
onActionClickReturns_NameOnly(actionName) == ~TruthyStr(actionName)

\* if (!actionName || loading) return;
onActionClickReturns(actionName) == ~TruthyStr(actionName) \/ loading

\* the j-th action button of the i-th turn is clicked
onActionClick(i, j) ==
  /\ mounted
  /\ i \in 1..Len(turns)
  /\ j \in 1..Len(ActionsOf(turns[i]))
  /\ LET a == ActionsOf(turns[i])[j]
     IN IF onActionClickReturns(a.action_name)
        THEN /\ returned' = "onActionClick"
             /\ UNCHANGED <<turns, expandedTrace, input, loading, insights,
                            insightsLoading, requests, now, mounted, prov,
                            created, data, out>>
        ELSE /\ returned' = ""
             /\ loading' = TRUE
             /\ requests' = Append(requests,
                  Request("onActionClick", "/action", undefined, a.action_name,
                          turns[i].id, prov[i].serial))
             /\ UNCHANGED <<turns, expandedTrace, input, insights,
                            insightsLoading, now, mounted, prov, created,
                            data, out>>

actionResolved(i, d) ==
  /\ i \in Outstanding("onActionClick")
  /\ LET turnId == requests[i].turnId
         r == Reconcile(d)
         f == [x \in Listed |-> Resolved(x, r)]
     IN /\ turns' = MapTurn(turns, turnId, f)
        /\ prov' = Applied(turnId, "onActionClick", Ok(d))
  /\ loading' = FALSE
  /\ requests' = Remove(requests, i)
  /\ returned' = Late(requests[i].turnId)
  /\ UNCHANGED <<expandedTrace, input, insights, insightsLoading, now,
                 mounted, created, data, out>>

actionFailed(i, e) ==
  /\ i \in Outstanding("onActionClick")
  /\ LET turnId == requests[i].turnId
         f == [x \in Listed |-> ActionErrored(x, e)]
     IN /\ turns' = MapTurn(turns, turnId, f)
        /\ prov' = Applied(turnId, "onActionClick", e)
  /\ loading' = FALSE
  /\ requests' = Remove(requests, i)
  /\ returned' = Late(requests[i].turnId)
  /\ UNCHANGED <<expandedTrace, input, insights, insightsLoading, now,
                 mounted, created, data, out>>

(***************************************************************************)
(* showInsightsInChat                                                      *)
(***************************************************************************)
\* showInsightsInChat without its early return
showInsightsInChatReturns_Never == FALSE

\* if (loading) return;
showInsightsInChatReturns == loading

showInsightsInChat ==
  /\ mounted
  /\ IF showInsightsInChatReturns
     THEN /\ returned' = "showInsightsInChat"
          /\ UNCHANGED <<turns, expandedTrace, input, loading, insights,
                         insightsLoading, requests, now, mounted, prov,
                         created, data, out>>
     ELSE /\ created < MaxTurns
          /\ returned' = ""
          /\ loading' = TRUE
          /\ turns' = Append(turns, Turn(TurnId("-insights"), <<>>,
                                         InsightsText, InsightsCard, <<>>))
          /\ prov' = Append(prov,
                            Provenance(created + 1, "showInsightsInChat"))
          /\ created' = created + 1
          /\ insightsLoading' = TRUE
          /\ requests' = Append(requests,
               RefreshRequest("showInsightsInChat", TurnId("-insights"),
                              created + 1))
          /\ UNCHANGED <<expandedTrace, input, insights, now, mounted, data,
                         out>>

InsightsListed(x, list) ==
  [x EXCEPT !.assistantText = InsightsText, !.insightsList = list]

\* refreshInsights returns (it never throws) and showInsightsInChat goes on
showInsightsInChatDone(i, outcome) ==
  /\ i \in Outstanding("showInsightsInChat")
  /\ LET turnId == requests[i].turnId
         list == InsightsOf(outcome)
         f == [x \in Listed |-> InsightsListed(x, list)]
     IN /\ insights' = list
        /\ turns' = MapTurn(turns, turnId, f)
        /\ prov' = Applied(turnId, "showInsightsInChat", outcome)
  /\ insightsLoading' = FALSE
  /\ loading' = FALSE
  /\ requests' = Remove(requests, i)
  /\ returned' = Late(requests[i].turnId)
  /\ UNCHANGED <<expandedTrace, input, now, mounted, created, data, out>>

(***************************************************************************)
(* openInsight                                                             *)
(***************************************************************************)
LowerCase(t) ==
  CASE t \in DemoWords -> "demo"
    [] t \in SafeWords -> "safe"
    [] t = "Opening" -> "opening"
    [] t = "Insights" -> "insights"
    [] t = "Travel" -> "travel"
    [] t = "Spend" -> "spend"
    [] t = "Analysis" -> "analysis"
    [] t = "Destination" -> "destination"
    [] t = "Dates" -> "dates"
    [] t = "Flight" -> "flight"
    [] t = "Depart" -> "depart"
    [] t = "Return" -> "return"
    [] t = "Hotel" -> "hotel"
    [] t = "Address" -> "address"
    [] t = "Check" -> "check"
    [] t = "Confirmation" -> "confirmation"
    [] OTHER -> t

toLowerCase(s) == [i \in 1..Len(s) |-> LowerCase(s[i])]

startsWith(s, prefix) ==
  Len(s) >= Len(prefix) /\ SubSeq(s, 1, Len(prefix)) = prefix

shouldHideInsightAck(msg, card) ==
  LET t == Trim(toLowerCase(IF TruthyStr(msg) THEN msg ELSE <<>>))
      title == IF card # null /\ TruthyStr(card.title) THEN card.title
               ELSE <<>>
  IN \/ startsWith(t, <<"opening", " ">>)
     \/ t = <<"opening", ".">>
     \/ Trim(toLowerCase(title)) = <<"insights">>

\* the View buttons a turn renders
InsightsOfTurn(t) ==
  IF t.card # null /\ t.insightsList # notArray THEN t.insightsList
  ELSE <<>>

\* if (!insightId || loading) return;
openInsightReturns(insightId) == ~TruthyStr(insightId) \/ loading

\* the k-th View button of the i-th turn is clicked
openInsight(i, k) ==
  /\ mounted
  /\ i \in 1..Len(turns)
  /\ k \in 1..Len(InsightsOfTurn(turns[i]))
  /\ LET insightId == InsightsOfTurn(turns[i])[k].id
     IN IF openInsightReturns(insightId)
        THEN /\ returned' = "openInsight"
             /\ UNCHANGED <<turns, expandedTrace, input, loading, insights,
                            insightsLoading, requests, now, mounted, prov,
                            created, data, out>>
        ELSE /\ created < MaxTurns
             /\ returned' = ""
             /\ loading' = TRUE
             /\ turns' = Append(turns, Turn(TurnId("-insight"), <<>>,
                                            Placeholder, null, notArray))
             /\ prov' = Append(prov, Provenance(created + 1, "openInsight"))
             /\ created' = created + 1
             /\ requests' = Append(requests,
                  Request("openInsight", "/action", undefined, <<"insight_view">>,
                          TurnId("-insight"), created + 1))
             /\ UNCHANGED <<expandedTrace, input, insights, insightsLoading,
                            now, mounted, data, out>>

InsightResolved(x, r) ==
  Resolved(x, [r EXCEPT !.assistantText =
                 IF shouldHideInsightAck(r.assistantText, r.card)
                 THEN <<>> ELSE @])

insightResolved(i, d) ==
  /\ i \in Outstanding("openInsight")
  /\ LET turnId == requests[i].turnId
         r == Reconcile(d)
         f == [x \in Listed |-> InsightResolved(x, r)]
     IN /\ turns' = MapTurn(turns, turnId, f)
        /\ prov' = Applied(turnId, "openInsight", Ok(d))
  /\ loading' = FALSE
  /\ requests' = Remove(requests, i)
  /\ returned' = Late(requests[i].turnId)
  /\ UNCHANGED <<expandedTrace, input, insights, insightsLoading, now,
                 mounted, created, data, out>>

insightFailed(i, e) ==
  /\ i \in Outstanding("openInsight")
  /\ LET turnId == requests[i].turnId
         f == [x \in Listed |-> ActionErrored(x, e)]
     IN /\ turns' = MapTurn(turns, turnId, f)
        /\ prov' = Applied(turnId, "openInsight", e)
  /\ loading' = FALSE
  /\ requests' = Remove(requests, i)
  /\ returned' = Late(requests[i].turnId)
  /\ UNCHANGED <<expandedTrace, input, insights, insightsLoading, now,
                 mounted, created, data, out>>

(***************************************************************************)
(* Logout, the trace toggle, typing and the clock.                         *)
(***************************************************************************)
\* a Logout that also resets loading
Logout_ClearsLoading ==
  /\ mounted
  /\ Cardinality(Outstanding("refreshInsights")) < MaxRefresh
  /\ turns' = <<Greeting>>
  /\ prov' = <<Provenance(0, "Logout")>>
  /\ expandedTrace' = {}
  /\ insightsLoading' = TRUE
  /\ loading' = FALSE
  /\ requests' = Append(requests, RefreshRequest("refreshInsights", NoTurn, 0))
  /\ returned' = ""
  /\ UNCHANGED <<input, insights, now, mounted, created, data, out>>

Logout ==
  /\ mounted
  /\ Cardinality(Outstanding("refreshInsights")) < MaxRefresh
  /\ turns' = <<Greeting>>
  /\ prov' = <<Provenance(0, "Logout")>>
  /\ expandedTrace' = {}
  /\ insightsLoading' = TRUE
  /\ requests' = Append(requests, RefreshRequest("refreshInsights", NoTurn, 0))
  /\ returned' = ""
  /\ UNCHANGED <<input, loading, insights, now, mounted, created, data, out>>

\* the Show/Hide button of the i-th turn's trace
toggleTrace(i) ==
  /\ mounted
  /\ i \in 1..Len(turns)
  /\ turns[i].trace # notArray /\ Len(turns[i].trace) > 0
  /\ expandedTrace' = IF turns[i].id \in expandedTrace
                      THEN expandedTrace \ {turns[i].id}
                      ELSE expandedTrace \cup {turns[i].id}
  /\ returned' = ""
  /\ UNCHANGED <<turns, input, loading, insights, insightsLoading, requests,
                 now, mounted, prov, created, data, out>>

\* onChange of the text field
setInput(v) ==
  /\ mounted
  /\ input' = v
  /\ returned' = ""
  /\ UNCHANGED <<turns, expandedTrace, loading, insights, insightsLoading,
                 requests, now, mounted, prov, created, data, out>>

\* time passes: the next reading of Date.now() is later.  Without it two
\* readings are equal (the clock has millisecond or coarser resolution)
Tick ==
  /\ now < MaxClock
  /\ now' = now + 1
  /\ UNCHANGED <<turns, expandedTrace, input, loading, insights,
                 insightsLoading, requests, mounted, prov, created, returned,
                 data, out>>

Outcomes == {Ok(d) : d \in UIResponses} \cup Failures

Next ==
  \/ Mount
  \/ \E text \in QuickChips \cup {undefined} : send(text)
  \/ \E i \in 1..Len(turns) :
       \E j \in 1..Len(ActionsOf(turns[i])) : onActionClick(i, j)
  \/ \E i \in 1..Len(turns) :
       \E k \in 1..Len(InsightsOfTurn(turns[i])) : openInsight(i, k)
  \/ showInsightsInChat
  \/ Logout
  \/ \E i \in 1..Len(turns) : toggleTrace(i)
  \/ \E v \in Inputs : setInput(v)
  \/ Tick
  \/ \E i \in 1..Len(requests) :
       \/ \E d \in UIResponses :
            sendResolved(i, d) \/ actionResolved(i, d) \/ insightResolved(i, d)
       \/ \E e \in Failures :
            sendFailed(i, e) \/ actionFailed(i, e) \/ insightFailed(i, e)
       \/ \E o \in Outcomes :
            refreshInsightsDone(i, o) \/ showInsightsInChatDone(i, o)

Spec == Init /\ [][Next]_vars

(***************************************************************************)
(* The travel card: its fields are read from the body at render time.      *)
(***************************************************************************)
\* (card?.title || "").toLowerCase().trim() === "travel"
isTravelCard(card) ==
  Trim(toLowerCase(IF card # null /\ TruthyStr(card.title) THEN card.title
                   ELSE <<>>)) = <<"travel">>

\* text.split("\n")
RECURSIVE Split(_)
Split(s) ==
  IF \E i \in 1..Len(s) : s[i] = "\n"
  THEN LET n == CHOOSE i \in 1..Len(s) :
                  s[i] = "\n" /\ \A j \in 1..(i - 1) : s[j] # "\n"
       IN <<SubSeq(s, 1, n - 1)>> \o Split(SubSeq(s, n + 1, Len(s)))
  ELSE <<s>>

\* .map((l) => l.trim()).filter(Boolean)
TravelLines(text) ==
  LET parts == Split(text)
      NonEmpty(l) == l # <<>>
  IN SelectSeq([i \in 1..Len(parts) |-> Trim(parts[i])], NonEmpty)

\* const get = (prefix) => ...: the rest of the first line with the prefix
RECURSIVE get(_, _)
get(lines, prefix) ==
  IF lines = <<>> THEN <<>>
  ELSE LET ln == Head(lines)
       IN IF startsWith(toLowerCase(ln), toLowerCase(prefix))
          THEN Trim(SubSeq(ln, Len(prefix) + 1, Len(ln)))
          ELSE get(Tail(lines), prefix)

parseTravel(body) ==
  LET text == IF TruthyStr(body) THEN body ELSE <<>>
      lines == TravelLines(text)
  IN [destination |-> get(lines, <<"Destination", ":">>),
      dates |-> get(lines, <<"Dates", ":">>),
      flight |-> get(lines, <<"Flight", ":">>),
      depart |-> get(lines, <<"Depart", ":">>),
      ret |-> get(lines, <<"Return", ":">>),
      hotel |-> get(lines, <<"Hotel", ":">>),
      address |-> get(lines, <<"Address", ":">>),
      checkin |-> get(lines, <<"Check", "-", "in", ":">>),
      confirmation |-> get(lines, <<"Confirmation", ":">>),
      points |-> get(lines, <<"Travel", " ", "points", ":">>)]

\* what turns.map renders of a reconciled turn: its fields, and the travel
\* fields when its card is a travel card
Render(r) ==
  [assistantText |-> r.assistantText, card |-> r.card, charts |-> r.charts,
   trace |-> r.trace,
   travel |-> IF isTravelCard(r.card) THEN parseTravel(r.card.body)
              ELSE null]

(***************************************************************************)
(* The extractors on their own: a response is drawn from ExtractInputs and *)
(* reconciled as send, onActionClick and openInsight reconcile it.         *)
(***************************************************************************)
SeqsUpTo(S, n) == UNION {[1..k -> S] : k \in 0..n}

MsgContents ==
  { undefined, <<" ">>, <<"hi">>, <<"yo">>, <<"demo">>,
    <<" ", "demo", " ", "hi">> }
Messages == {Msg(r, c) : r \in {"user", "assistant"}, c \in MsgContents}
MessageInputs ==
  {Response(m, null, null, notArray) :
     m \in SeqsUpTo(Messages, MaxMsgs) \cup {notArray}}

Planners ==
  { null, [decision |-> <<"D">>, reason |-> <<"R">>],
    [decision |-> <<"demo", " ", "D">>, reason |-> undefined] }
Delegates ==
  { null, [agent |-> undefined, capability |-> undefined],
    [agent |-> <<"Payments">>, capability |-> <<"transfer">>] }
Acts ==
  { null, [result |-> <<"done">>, confidence |-> undefined],
    [result |-> <<"done", " ", "(", "demo", ")">>,
     confidence |-> <<"high">>] }
AgentTraces ==
  {null} \cup {AgentTrace(p, d, a) : p \in Planners, d \in Delegates,
                                     a \in Acts}
DebugTrace ==
  << Step(<<"Lookup">>, <<"demo", " ", "bot">>, undefined, undefined,
          undefined, <<"found">>) >>
TopTrace ==
  << Step(<<"Plan">>, undefined, undefined, <<"because">>, undefined,
          undefined),
     Step(<<"Act">>, undefined, <<"ledger">>, undefined, undefined,
          undefined) >>
TraceInputs ==
  {Response(notArray, null, Debug(null, at, dt, notArray), tt) :
     at \in AgentTraces, dt \in {notArray, <<>>, DebugTrace},
     tt \in {notArray, TopTrace}}
  \cup {Response(notArray, null, null, tt) : tt \in {notArray, TopTrace}}

Titles ==
  { undefined, SpendAnalysis, SpendAnalysis \o <<" ", "(", "demo", ")">>,
    <<"Spend", " ", " ", "Analysis">>, <<"spend", " ", "analysis">>,
    <<"Travel">> }
CardInputs ==
  {Response(notArray, c, dbg, notArray) :
     c \in {null} \cup {Card(t, a) : t \in Titles,
                                     a \in {notArray, SomeActions}},
     dbg \in {null, Debug(null, null, notArray, notArray),
              Debug(SomeCharts, null, notArray, notArray)}}

\* card bodies of a travel card: plain lines, a label in lower case, a blank
\* line between two lines, a value with the word demo, a label given twice,
\* a space before a line break
TravelBodies ==
  { undefined,
    <<"Destination", ":", " ", "Paris", "\n", "Dates", ":", " ", "May">>,
    <<"destination", ":", " ", "Paris", "\n", "Hotel", ":", " ", "Ritz">>,
    <<"Destination", ":", " ", "Paris", "\n", "\n", "Dates", ":", " ",
      "May">>,
    <<"Hotel", ":", " ", "Demo", " ", "Inn", "\n", "Dates", ":", " ", "May">>,
    <<"Dates", ":", " ", "May", "\n", "Dates", ":", " ", "June">>,
    <<"Check", "-", "in", ":", " ", "3pm", " ", "\n", "Travel", " ", "points",
      ":", " ", "500">> }
TravelInputs ==
  {Response(notArray, [Card(t, notArray) EXCEPT !.body = b], null, notArray) :
     t \in {<<"Travel">>, <<"travel", " ", "(", "demo", ")">>},
     b \in TravelBodies}

\* answers to insight_view: an acknowledgement or a plain reply, with or
\* without a card
InsightMessages ==
  { notArray,
    <<Msg("assistant", <<"Opening", " ", "X">>)>>,
    <<Msg("assistant", <<"demo", " ", "opening", " ", "X">>)>>,
    <<Msg("assistant", <<"Opening", ".">>)>>,
    <<Msg("assistant", <<"Opening">>)>>,
    <<Msg("assistant", <<"Now", " ", "opening", " ", "X">>)>>,
    <<Msg("assistant", <<"(", "demo", ")">>)>>,
    <<Msg("assistant", <<"hi">>)>> }
InsightTitles ==
  { <<"Insights">>, <<" ", "insights", " ">>,
    <<"Insights", " ", "(", "demo", ")">>, <<"Insights", " ", "X">>,
    SpendAnalysis }
InsightInputs ==
  {Response(m, c, Debug(SomeCharts, null, notArray, notArray), notArray) :
     m \in InsightMessages,
     c \in {null} \cup {Card(t, notArray) : t \in InsightTitles}}

ExtractInputs ==
  MessageInputs \cup TraceInputs \cup CardInputs \cup TravelInputs
    \cup InsightInputs

InitExtract == InitHome /\ data \in ExtractInputs /\ out = null

\* the turn of openInsight after the successful response d
Opened(d) ==
  InsightResolved(Turn(TurnId("-insight"), <<>>, Placeholder, null, notArray),
                  Reconcile(d))

\* const assistantText = ...; const card = ...; const charts = ...; const trace
\* as every handler derives them, what the render loop adds, and the turn
\* openInsight makes of them
reconcile ==
  /\ data # null
  /\ out = null
  /\ out' = Render(Reconcile(data)) @@ [opened |-> Opened(data)]
  /\ UNCHANGED <<uiVars, data>>

SpecExtract == InitExtract /\ [][reconcile]_vars

(***************************************************************************)
(* Properties of the extractors, under SpecExtract.                        *)
(***************************************************************************)
Min(S) == CHOOSE x \in S : \A y \in S : x <= y

\* the messages array of data, empty when messages is not an array
MessagesOf(d) == IF d.messages = notArray THEN <<>> ELSE d.messages

\* the positions of the assistant messages of d with non-blank content
Speaking(d) ==
  {i \in 1..Len(MessagesOf(d)) :
     /\ MessagesOf(d)[i].role = "assistant"
     /\ MessagesOf(d)[i].content # undefined
     /\ Trim(MessagesOf(d)[i].content) # <<>>}

\* C4 as stated: the assistant text is the content of the first assistant
\* message with non-blank trimmed content, and it is "No response." exactly
\* when there is no such message.
C4_TextIsContentOfFirstAssistant ==
  out # null =>
    /\ Speaking(data) # {} =>
         out.assistantText = MessagesOf(data)[Min(Speaking(data))].content
    /\ out.assistantText = NoResponse <=> Speaking(data) = {}

\* C4 amended: the assistant text is the content of the first assistant
\* message with non-blank trimmed content, trimmed and passed through the
\* cosmetic filter, and it is "No response." when there is no such message or
\* messages is not an array.
C4_TextIsFilteredFirstAssistant ==
  out # null =>
    out.assistantText =
      IF Speaking(data) # {}
      THEN stripDemo(Trim(MessagesOf(data)[Min(Speaking(data))].content))
      ELSE NoResponse

\* a user message and a blank assistant message are skipped, and the text
\* taken is not the content as sent
C4_Witness ==
  /\ out # null
  /\ Speaking(data) # {}
  /\ Min(Speaking(data)) > 1
  /\ out.assistantText # MessagesOf(data)[Min(Speaking(data))].content

ChartsOf(d) == IF d.debug = null THEN null ELSE d.debug.charts

\* C6: charts are attached if and only if the card title of the response is
\* exactly "Spend Analysis" and debug.charts was present in it.
C6_ChartsIffExactTitle ==
  out # null =>
    (out.charts # null <=>
       /\ data.card # null
       /\ data.card.title = SpendAnalysis
       /\ ChartsOf(data) # null)

AgentTraceOf(d) == IF d.debug = null THEN null ELSE d.debug.agent_trace

\* the keys of an agent_trace that hold an object, in the order of the steps
PresentStages(at) ==
  (IF at.planner # null THEN << <<"Planner">> >> ELSE <<>>)
  \o (IF at.delegate # null THEN << <<"Delegate">> >> ELSE <<>>)
  \o (IF at.act # null THEN << <<"Act">> >> ELSE <<>>)

HasStage(at) == at # null /\ PresentStages(at) # <<>>

PlannerOnly(at) ==
  at # null /\ at.planner # null /\ at.delegate = null /\ at.act = null

\* C9 as stated: one step per present key in the order Planner, Delegate,
\* Act, and a lone planner {decision: D, reason: R} gives one step with stage
\* "Planner", reasoning R and decision D.
C9_PlannerStepVerbatim ==
  out # null /\ HasStage(AgentTraceOf(data)) =>
    LET at == AgentTraceOf(data)
    IN /\ [i \in 1..Len(out.trace) |-> out.trace[i].stage] = PresentStages(at)
       /\ PlannerOnly(at) =>
            /\ out.trace[1].reasoning = at.planner.reason
            /\ out.trace[1].decision = at.planner.decision

\* C9 amended: when at least one of planner, delegate, act is present, one
\* step per present key in the order Planner, Delegate, Act, never more than
\* three; a lone planner {decision: D, reason: R} gives one step with stage
\* "Planner" whose reasoning and decision are R and D after the cosmetic
\* filter.
C9_PlannerStepFiltered ==
  out # null /\ HasStage(AgentTraceOf(data)) =>
    LET at == AgentTraceOf(data)
    IN /\ out.trace # notArray
       /\ Len(out.trace) <= 3
       /\ [i \in 1..Len(out.trace) |-> out.trace[i].stage] = PresentStages(at)
       /\ PlannerOnly(at) =>
            /\ Len(out.trace) = 1
            /\ out.trace[1].reasoning = stripDemo(at.planner.reason)
            /\ out.trace[1].decision = stripDemo(at.planner.decision)

\* a lone planner whose decision the filter changes
C9_Witness ==
  /\ out # null
  /\ PlannerOnly(AgentTraceOf(data))
  /\ out.trace[1].decision # AgentTraceOf(data).planner.decision

\* data without its flat arrays
WithoutFlat(d) ==
  [d EXCEPT !.trace = notArray,
            !.debug = IF @ = null THEN @ ELSE [@ EXCEPT !.trace = notArray]]

\* the flat array extractTraceIfAny reads: debug.trace, else trace
FlatOf(d) ==
  IF d.debug # null /\ d.debug.trace # notArray THEN d.debug.trace
  ELSE d.trace

\* C10 as stated: whenever debug.agent_trace is present the trace is derived
\* from it and the flat arrays are ignored.
C10_AgentTraceAlwaysWins ==
  out # null /\ AgentTraceOf(data) # null =>
    out.trace = extractTraceIfAny(WithoutFlat(data))

\* C10 amended: whenever debug.agent_trace holds at least one of planner,
\* delegate, act, the trace is derived from it and the flat arrays are
\* ignored; otherwise (agent_trace absent or without any of the three) the
\* flat array under debug.trace, or else under trace, is used; the result is
\* null when neither yields a step.
C10_StructuredWinsWhenItHasAStage ==
  out # null =>
    IF HasStage(AgentTraceOf(data))
    THEN /\ out.trace # notArray
         /\ [i \in 1..Len(out.trace) |-> out.trace[i].stage]
              = PresentStages(AgentTraceOf(data))
         /\ out.trace = Reconcile(WithoutFlat(data)).trace
    ELSE IF FlatOf(data) # notArray /\ Len(FlatOf(data)) > 0
         THEN out.trace = [i \in 1..Len(FlatOf(data)) |->
                             FlatStep(FlatOf(data)[i])]
         ELSE out.trace = notArray

\* an agent_trace object without any stage, and the flat array is used
C10_Witness ==
  /\ out # null
  /\ AgentTraceOf(data) # null
  /\ ~HasStage(AgentTraceOf(data))
  /\ out.trace # notArray

(***************************************************************************)
(* Properties of the home screen, under Spec.                              *)
(***************************************************************************)
\* the requests issued by the handlers that set loading
Gated ==
  {i \in 1..Len(requests) :
     requests[i].op \in {"send", "onActionClick", "openInsight",
                         "showInsightsInChat"}}

\* the turns, still in the list, that request i was issued for
OriginOf(i) == {k \in 1..Len(turns) : prov[k].serial = requests[i].serial}

\* the request with this creation number is no longer in flight
Answered(serial, op) ==
  \A j \in 1..Len(requests') :
    ~(requests'[j].serial = serial /\ requests'[j].op = op)

\* C1: send() with text that is empty or blank after trimming, or while
\* loading is true, appends no turn, issues no request and leaves loading and
\* the turn list unchanged.
C1_RejectedSendChangesNothing ==
  [][\A text \in QuickChips \cup {undefined} :
       (/\ send(text)
        /\ \/ Trim(IF text # undefined THEN text ELSE input) = <<>>
           \/ loading)
       => UNCHANGED <<turns, loading, requests, input>>]_vars

\* send has just returned early while another request holds the gate
C1_Witness ==
  /\ returned = "send"
  /\ loading
  /\ Len(requests) > 0

\* C2 as stated: at most one HTTP request is in flight across the whole UI.
C2_AtMostOneRequest == Len(requests) <= 1

\* C2 amended: at most one request issued by send, onActionClick, openInsight
\* or showInsightsInChat is in flight, and one is in flight exactly while
\* loading is true; the insights refreshes on mount and on Logout are not
\* gated by loading and may be in flight beside it.
C2_AtMostOneGatedRequest ==
  /\ Cardinality(Gated) <= 1
  /\ loading <=> Gated # {}

\* a gated request and an insights refresh are in flight together
C2_Witness ==
  /\ Gated # {}
  /\ Outstanding("refreshInsights") # {}

\* what a successful response makes of a turn, field by field
ShowsResponse(t, d) ==
  /\ t.assistantText = extractAssistantText(d)
  /\ t.card = sanitizeCard(d.card)
  /\ t.charts = extractChartsIfAny(d, sanitizeCard(d.card))
  /\ t.trace = extractTraceIfAny(d)

\* C3 as stated: whenever the /orchestrate call of a send succeeds, the turn
\* created by that send goes from pending to resolved: the response is
\* applied to it, whatever happened while the request was outstanding.
C3_SuccessfulSendResolvesItsTurn ==
  [][\A i \in 1..Len(requests) : \A d \in UIResponses :
       sendResolved(i, d) =>
         \E k \in OriginOf(i) :
           /\ turns[k].assistantText = Placeholder
           /\ ShowsResponse(turns'[k], d)]_vars

\* C3 amended: whenever the /orchestrate call of a send succeeds, the
\* response is applied exactly once to the turn created by that send if that
\* turn is still in the list: the turn was pending until then, is resolved
\* with the response, and the request is gone; a pending turn is resolved by
\* nothing but the response of its own request.  If Logout has removed the
\* turn meanwhile, the response is applied to no turn.
C3_SuccessfulSendResolvesListedTurnOnce ==
  [][/\ \A i \in 1..Len(requests) : \A d \in UIResponses :
          sendResolved(i, d) =>
            /\ \A k \in OriginOf(i) :
                 /\ prov[k].last = null
                 /\ turns[k].assistantText = Placeholder
                 /\ ShowsResponse(turns'[k], d)
                 /\ prov'[k].last = [op |-> "send", outcome |-> Ok(d)]
            /\ OriginOf(i) = {} => turns' = turns
            /\ Answered(requests[i].serial, "send")
     /\ \A k \in 1..Len(turns) :
          (/\ prov[k].by = "send"
           /\ prov[k].last = null
           /\ k <= Len(turns')
           /\ prov'[k].serial = prov[k].serial
           /\ turns'[k] # turns[k])
          => /\ prov'[k].last # null
             /\ prov'[k].last.op = "send"
             /\ Answered(prov[k].serial, "send")]_vars

\* a turn made by send shows the successful response of its request
C3_Witness ==
  \E k \in 1..Len(turns) :
    /\ prov[k].by = "send"
    /\ prov[k].last # null
    /\ prov[k].last.op = "send"
    /\ prov[k].last.outcome.kind = "ok"
    /\ ShowsResponse(turns[k], prov[k].last.outcome.data)

SameCardFiltered(card, src) ==
  /\ card.title = stripDemo(src.title)
  /\ card.subtitle = stripDemo(src.subtitle)
  /\ card.body = stripDemo(src.body)
  /\ (src.actions = notArray) = (card.actions = notArray)
  /\ src.actions # notArray =>
       /\ Len(card.actions) = Len(src.actions)
       /\ \A j \in 1..Len(src.actions) :
            /\ card.actions[j].action_name = src.actions[j].action_name
            /\ card.actions[j].params = src.actions[j].params
            /\ card.actions[j].label = stripDemo(src.actions[j].label)

\* the response card behind the card of the k-th turn: the card of the last
\* successful response, or none after a failed send
CardSource(k) ==
  IF prov[k].ok = null THEN null
  ELSE IF prov[k].last.op = "send" /\ prov[k].last.outcome.kind # "ok"
       THEN null
       ELSE prov[k].ok.card

C7_FailedSendMarksOnlyItsTurn ==
  [][\A i \in 1..Len(requests) :
       \A e \in {f \in Failures : f.kind = "http"} :
         sendFailed(i, e) =>
           \A k \in 1..Len(turns) :
             IF k \in OriginOf(i)
             THEN /\ Includes(turns'[k].assistantText, <<e.status>>)
                  /\ Includes(turns'[k].assistantText, e.body)
                  /\ turns'[k].card = null
                  /\ turns'[k].charts = null
                  /\ turns'[k].trace = notArray
             ELSE turns'[k] = turns[k]]_vars

\* C8: when the request of a card action or of openInsight fails, the turn
\* it updates gets the error message as assistant text and its card and
\* charts are cleared, as for a failed send.
C8_FailedActionClearsCard ==
  [][\A i \in 1..Len(requests) : \A e \in Failures :
       (actionFailed(i, e) \/ insightFailed(i, e)) =>
         \A k \in OriginOf(i) :
           /\ turns'[k].assistantText = ActionError(e)
           /\ turns'[k].card = null
           /\ turns'[k].charts = null]_vars

\* the identifiers of a turn list, in order
Ids(list) == [k \in 1..Len(list) |-> list[k].id]

IsPrefix(s, t) == Len(s) <= Len(t) /\ SubSeq(t, 1, Len(s)) = s

\* C11: the turn list is append-only: every step other than Logout leaves
\* the sequence of turn identifiers as a prefix of the sequence after it, and
\* Logout replaces the whole list by exactly one greeting turn with id "t0".
C11_AppendOnlyExceptLogout ==
  [][IF Logout
     THEN Ids(turns') = <<GreetingId>> /\ turns'[1].assistantText = GreetingText
     ELSE IsPrefix(Ids(turns), Ids(turns'))]_vars

\* after a Logout that removed turns, a new turn has been appended and has
\* got its response
C11_Witness ==
  /\ prov[1].by = "Logout"
  /\ Len(turns) = 2
  /\ created = 2
  /\ prov[2].last # null

\* C12: turn identifiers are never reused: in every reachable state all
\* turns in the list have pairwise distinct identifiers.
C12_IdsPairwiseDistinct ==
  \A j, k \in 1..Len(turns) : j # k => turns[j].id # turns[k].id

\* request i gets its response in this step, whatever the response is
Responds(i) ==
  \/ \E d \in UIResponses :
       sendResolved(i, d) \/ actionResolved(i, d) \/ insightResolved(i, d)
  \/ \E e \in Failures :
       sendFailed(i, e) \/ actionFailed(i, e) \/ insightFailed(i, e)
  \/ \E o \in Outcomes : showInsightsInChatDone(i, o)

\* C13: applying a response of send, onActionClick, openInsight or
\* showInsightsInChat changes only the turn the request was issued for: every
\* other turn, the order of the turns, and the id and userText of the updated
\* turn are unchanged.
C13_ResponseChangesOnlyItsTurn ==
  [][\A i \in 1..Len(requests) :
       Responds(i) =>
         /\ Len(turns') = Len(turns)
         /\ \A k \in 1..Len(turns) :
              IF k \in OriginOf(i)
              THEN /\ turns'[k].id = turns[k].id
                   /\ turns'[k].userText = turns[k].userText
              ELSE turns'[k] = turns[k]]_vars

\* the fields of a turn that a response fills
Shown(t) == <<t.assistantText, t.card, t.charts, t.trace>>

\* the response of a card action issued on the k-th turn arrives in this step
ActionAnsweredOn(k) ==
  \E i \in 1..Len(requests) :
    /\ requests[i].serial = prov[k].serial
    /\ \/ \E d \in UIResponses : actionResolved(i, d)
       \/ \E e \in Failures : actionFailed(i, e)

\* C14: resolved and errored are terminal: once a turn has got its response,
\* its assistant text, card, charts and trace change only through a card
\* action issued on that same turn; no send, openInsight, showInsightsInChat
\* or insights refresh modifies it.
C14_ResolvedChangesOnlyByItsActions ==
  [][\A k \in 1..Len(turns) :
       (/\ prov[k].last # null
        /\ k <= Len(turns')
        /\ prov'[k].serial = prov[k].serial
        /\ Shown(turns'[k]) # Shown(turns[k]))
       => ActionAnsweredOn(k)]_vars

\* C15: when the network call behind send, openInsight or showInsightsInChat
\* fails with an exception, the turn that originated the call ends with an
\* error string as its assistant text.
C15_ExceptionShowsOnItsTurn ==
  [][\A i \in 1..Len(requests) :
       \A e \in {f \in Failures : f.kind = "throw"} :
         (sendFailed(i, e) \/ insightFailed(i, e)
            \/ showInsightsInChatDone(i, e)) =>
           \A k \in OriginOf(i) :
             Includes(turns'[k].assistantText, e.message)]_vars

\* request i fails in this step with e
Fails(i, e) ==
  \/ sendFailed(i, e)
  \/ actionFailed(i, e)
  \/ insightFailed(i, e)
  \/ showInsightsInChatDone(i, e)

\* C16: after a request failure (HTTP non-success or exception) in send,
\* onActionClick, openInsight or showInsightsInChat, loading is false once the
\* failed call has completed and the failed request is not issued again; a
\* submission of non-blank text made while loading is false, as the one
\* following the failure is, appends one new turn and issues exactly one
\* request, for that turn.
C16_UsableAfterFailure ==
  [][/\ \A i \in 1..Len(requests) : \A e \in Failures :
          Fails(i, e) =>
            /\ ~loading'
            /\ requests' = Remove(requests, i)
            /\ Answered(requests[i].serial, requests[i].op)
     /\ \A text \in QuickChips \cup {undefined} :
          LET t == Trim(IF text # undefined THEN text ELSE input)
          IN (send(text) /\ t # <<>> /\ ~loading) =>
               /\ Len(turns') = Len(turns) + 1
               /\ IsPrefix(turns, turns')
               /\ turns'[Len(turns')].assistantText = Placeholder
               /\ Len(requests') = Len(requests) + 1
               /\ IsPrefix(requests, requests')
               /\ requests'[Len(requests')].op = "send"
               /\ requests'[Len(requests')].text = t
               /\ requests'[Len(requests')].turnId = turns'[Len(turns')].id
               /\ loading']_vars

\* a request has failed, loading is false again, and a later submission has
\* appended a turn whose request is in flight
C16_Witness ==
  \E k, j \in 1..Len(turns) :
    /\ prov[k].last # null
    /\ prov[k].last.outcome.kind # "ok"
    /\ prov[j].by = "send"
    /\ prov[j].serial > prov[k].serial
    /\ prov[j].last = null
    /\ \E i \in Outstanding("send") : requests[i].serial = prov[j].serial

\* the gated requests in flight
GatedRequests == {requests[i] : i \in Gated}

\* C17: loading becomes true when send, onActionClick, openInsight or
\* showInsightsInChat issues its request and becomes false only when that
\* request has completed; while the request is outstanding no event, Logout
\* included, clears loading.
C17_LoadingFollowsItsRequest ==
  [][/\ (~loading /\ loading') =>
          GatedRequests = {} /\ Cardinality(GatedRequests') = 1
     /\ (loading /\ ~loading') =>
          GatedRequests # {} /\ GatedRequests' = {}
     /\ (GatedRequests # {} /\ GatedRequests' = GatedRequests) => loading'
     /\ GatedRequests' # {} => loading']_vars

\* Logout was pressed while a gated request is outstanding, and loading is
\* still true
C17_Witness ==
  /\ prov[1].by = "Logout"
  /\ Gated # {}
  /\ loading

\* messages, card and debug are absent from d
Bare(d) == d.messages = notArray /\ d.card = null /\ d.debug = null

\* C18 as stated: a successful response in which messages, card and debug
\* are absent gives the defaults: assistant text "No response.", card null,
\* charts null and trace null, and no error text.
C18_BareResponseGivesDefaults ==
  (out # null /\ Bare(data)) =>
    /\ out.assistantText = NoResponse
    /\ out.card = null
    /\ out.charts = null
    /\ out.trace = notArray

\* C18 amended: a successful response in which messages, card and debug are
\* absent gives assistant text "No response.", card null and charts null, and
\* no error text; its trace is null unless the response has a non-empty array
\* under its top-level trace field, which then becomes the trace, filtered.
C18_BareResponseGivesDefaultsButTrace ==
  (out # null /\ Bare(data)) =>
    /\ out.assistantText = NoResponse
    /\ ~Includes(out.assistantText, <<"error">>)
    /\ out.card = null
    /\ out.charts = null
    /\ out.trace =
         IF data.trace # notArray /\ Len(data.trace) > 0
         THEN [i \in 1..Len(data.trace) |-> FlatStep(data.trace[i])]
         ELSE notArray

\* a response without messages, card, debug and trace has been reconciled
C18_Witness ==
  /\ out # null
  /\ Bare(data)
  /\ data.trace = notArray
  /\ out.assistantText = NoResponse

\* C19: for a turn whose card is a travel card, each of the ten travel fields
\* is the trimmed remainder of the first line of the card body returned by
\* the backend that starts, case-insensitively, with the field's label, and
\* is empty when no line of that body starts with the label.
C19_FieldsAreLinesOfBackendBody ==
  (out # null /\ out.travel # null) =>
    LET lines == TravelLines(IF TruthyStr(data.card.body) THEN data.card.body
                             ELSE <<>>)
    IN /\ out.travel.destination = get(lines, <<"Destination", ":">>)
       /\ out.travel.dates = get(lines, <<"Dates", ":">>)
       /\ out.travel.flight = get(lines, <<"Flight", ":">>)
       /\ out.travel.depart = get(lines, <<"Depart", ":">>)
       /\ out.travel.ret = get(lines, <<"Return", ":">>)
       /\ out.travel.hotel = get(lines, <<"Hotel", ":">>)
       /\ out.travel.address = get(lines, <<"Address", ":">>)
       /\ out.travel.checkin = get(lines, <<"Check", "-", "in", ":">>)
       /\ out.travel.confirmation = get(lines, <<"Confirmation", ":">>)
       /\ out.travel.points = get(lines, <<"Travel", " ", "points", ":">>)

\* the turns whose request has been issued and not yet reconciled
PendingTurns ==
  {k \in 1..Len(turns) :
     /\ prov[k].by \in {"send", "openInsight", "showInsightsInChat"}
     /\ prov[k].last = null}

\* C20: at most one turn is pending, and a pending turn exists only while
\* loading is true and its request is in flight; a turn that shows the
\* placeholder is pending.
C20_AtMostOnePendingTurn ==
  /\ Cardinality(PendingTurns) <= 1
  /\ \A k \in PendingTurns :
       /\ loading
       /\ \E i \in Gated : /\ requests[i].serial = prov[k].serial
                           /\ requests[i].op = prov[k].by
  /\ \A k \in 1..Len(turns) :
       turns[k].assistantText = Placeholder => k \in PendingTurns

\* one turn is pending beside a turn that has got its response
C20_Witness ==
  /\ PendingTurns # {}
  /\ \E j \in 1..Len(turns) : prov[j].last # null

\* C21: if Logout is pressed while a request of send, onActionClick,
\* openInsight or showInsightsInChat is outstanding, the turn the request was
\* issued for is gone and the list is the single greeting turn; the response
\* that arrives afterwards changes no turn, and the list stays the single
\* greeting turn until an operation appends a new turn.
C21_LateResponseChangesNoTurn ==
  [][/\ \A i \in Gated :
          OriginOf(i) = {} =>
            /\ prov[1].by = "Logout"
            /\ turns = <<Greeting>>
            /\ Responds(i) => turns' = turns /\ returned' = "late"
     /\ (turns = <<Greeting>> /\ turns' # turns) =>
          /\ Len(turns') = 2
          /\ turns'[1] = Greeting
          /\ created' = created + 1]_vars

\* the response of a request that was outstanding at Logout has just arrived
\* and the list is the single greeting turn
C21_Witness ==
  /\ returned = "late"
  /\ prov[1].by = "Logout"
  /\ turns = <<Greeting>>
  /\ ~loading

\* C22: the first element of the turn list is always the greeting turn, with
\* id "t0", empty user text, the greeting as assistant text and no card, and
\* no response of any request modifies it (a response is a step that takes
\* its request out of the requests in flight).
C22_GreetingStaysFirst ==
  [][/\ Len(turns') >= 1
     /\ turns'[1].id = GreetingId
     /\ turns'[1].userText = <<>>
     /\ turns'[1].assistantText = GreetingText
     /\ turns'[1].card = null
     /\ turns[1] = Greeting
     /\ Len(requests') < Len(requests) => turns'[1] = turns[1]]_vars

\* the greeting put there by Home is still first after a later turn has got
\* the response of its request
C22_Witness ==
  /\ prov[1].by = "Home"
  /\ turns[1] = Greeting
  /\ Len(turns) >= 2
  /\ prov[2].last # null
  /\ turns[2].assistantText # Placeholder

\* the insights refreshes in flight, whoever started them
Refreshes ==
  Outstanding("refreshInsights") \cup Outstanding("showInsightsInChat")

\* the turn of the showInsightsInChat that was started last
LastInsightsTurn ==
  {k \in 1..Len(turns) :
     /\ prov[k].by = "showInsightsInChat"
     /\ \A j \in 1..Len(turns) :
          prov[j].by = "showInsightsInChat" => prov[j].serial <= prov[k].serial}

\* C23: insightsLoading is true whenever an insights refresh is in flight,
\* whether started on mount, by showInsightsInChat or by Logout, and when none
\* is in flight the list behind the badge is the result of the refresh that
\* was started last (with no Logout so far, the one of the last
\* showInsightsInChat).
C23_InsightsLoadingCoversRefreshes ==
  /\ Refreshes # {} => insightsLoading
  /\ (Refreshes = {} /\ prov[1].by = "Home") =>
       \A k \in LastInsightsTurn :
         insights = InsightsOf(prov[k].last.outcome)

\* C24: the assistant text that a successful send stores on its turn is never
\* empty: it is the selected assistant message or the fallback "No
\* response.", so the turn renders an assistant bubble.
C24_ResolvedTextNonEmpty ==
  out # null => TruthyStr(out.assistantText)

\* C25: every turn created by send has a non-empty userText, and the text of
\* the /orchestrate request issued for that turn is the same string as the
\* userText stored on the turn.
C25_UserTextIsRequestText ==
  \A k \in 1..Len(turns) :
    prov[k].by = "send" =>
      /\ TruthyStr(turns[k].userText)
      /\ \A i \in Outstanding("send") :
           requests[i].serial = prov[k].serial =>
             requests[i].text = turns[k].userText

\* the trace panel of the k-th turn of the list is open
TraceOpen(list, flags, k) == list[k].id \in flags

\* a response to a request issued for the k-th turn arrives in this step and
\* leaves the turn with a trace
TraceArrivesAt(k) ==
  /\ k <= Len(turns')
  /\ prov'[k].serial = prov[k].serial
  /\ turns'[k].trace # notArray
  /\ \E i \in 1..Len(requests) :
       /\ requests[i].serial = prov[k].serial
       /\ requests' = Remove(requests, i)

\* C26: a turn's trace panel is collapsed by default: its flag is false when
\* the trace arrives, and becomes true only through the toggle on that turn;
\* a toggle flips the flag of that turn and of no other turn, and Logout
\* resets every flag.
C26_TraceCollapsedUntilToggled ==
  [][/\ \A k \in 1..Len(turns) :
          /\ TraceArrivesAt(k) => ~TraceOpen(turns', expandedTrace', k)
          /\ (/\ k <= Len(turns')
              /\ ~TraceOpen(turns, expandedTrace, k)
              /\ TraceOpen(turns', expandedTrace', k)) => toggleTrace(k)
     /\ \A i \in 1..Len(turns) :
          toggleTrace(i) =>
            \A k \in 1..Len(turns) :
              TraceOpen(turns', expandedTrace', k) =
                IF k = i THEN ~TraceOpen(turns, expandedTrace, k)
                ELSE TraceOpen(turns, expandedTrace, k)
     /\ Logout => expandedTrace' = {}]_vars

\* the acknowledgement test of C27, on the extracted text and on the card of
\* the response
IsAck(text, card) ==
  LET t == Trim(toLowerCase(text))
      title == IF card # null /\ TruthyStr(card.title) THEN card.title
               ELSE <<>>
  IN \/ startsWith(t, <<"opening", " ">>)
     \/ t = <<"opening", ".">>
     \/ Trim(toLowerCase(title)) = <<"insights">>

\* C27: openInsight resolves its turn with an empty assistant text exactly
\* when the extracted assistant message starts with "opening " or equals
\* "opening." or the title of the response's card is "insights" (both
\* case-insensitive and trimmed); otherwise the turn keeps the extracted
\* text; card, charts and trace are set from the response in both cases.
C27_AckHiddenExactlyWhenOpening ==
  out # null =>
    LET text == extractAssistantText(data)
        card == sanitizeCard(data.card)
    IN /\ out.opened.assistantText = <<>> <=> IsAck(text, data.card)
       /\ ~IsAck(text, data.card) => out.opened.assistantText = text
       /\ out.opened.card = card
       /\ out.opened.charts = extractChartsIfAny(data, card)
       /\ out.opened.trace = extractTraceIfAny(data)

\* C28: a click on a card action that has no action_name, and any click on a
\* card action, on the View button of an insight or on the Insights button
\* while loading is true, issues no request and changes neither the turn list
\* nor loading.
C28_RejectedClickChangesNothing ==
  [][/\ \A i \in 1..Len(turns) : \A j \in 1..Len(ActionsOf(turns[i])) :
          (/\ onActionClick(i, j)
           /\ \/ ~TruthyStr(ActionsOf(turns[i])[j].action_name)
              \/ loading)
          => UNCHANGED <<turns, loading, requests>>
     /\ \A i \in 1..Len(turns) : \A k \in 1..Len(InsightsOfTurn(turns[i])) :
          (openInsight(i, k) /\ loading)
          => UNCHANGED <<turns, loading, requests>>
     /\ (showInsightsInChat /\ loading)
          => UNCHANGED <<turns, loading, requests>>]_vars

\* an action without action_name has just been clicked while nothing was
\* loading, and no request was issued for it
C28_Witness ==
  /\ returned = "onActionClick"
  /\ ~loading
  /\ Gated = {}
  /\ \E i \in 1..Len(turns) : \E j \in 1..Len(ActionsOf(turns[i])) :
       ~TruthyStr(ActionsOf(turns[i])[j].action_name)

====
